---- MODULE Spec2Model ----
(***************************************************************************)
(* Model of the signature-suite registry and composite suite               *)
(* (proof/signaturesuite.go), the credential builder                       *)
(* (credential/builder.go) and the proof object of the ledger metadata     *)
(* schema (ledger/schema/schemas/json/ledger_metadata.json).               *)
(***************************************************************************)
EXTENDS Integers, Sequences, FiniteSets, TLC

VARIABLES
    heap,         \* allocated LDSignatureSuite objects; an address is an index
    globals,      \* package-level suite variables, Nil until initialised
    initPc,       \* number of package-level variables initialised so far
    derivations,  \* one record per withV2Proofs / withB64Digest / withAndWithoutCanonicalizer call
    lookup,       \* the last registry lookup: function, arguments, returned (suite, err)
    op,           \* the last Sign / Verify on a looked-up suite: delegate outcomes, calls, result
    bpc,          \* position of Builder.Build
    builder,      \* the Builder value Build runs on
    bsuite,       \* the suite Build resolved
    credSubjects, \* Build's credSubjects map
    claimProofs,  \* Build's claimProofs map
    signLog,      \* the documents Build handed to suite.Sign, in order, with the outcome
    bret,         \* what Build returned: (cred, err)
    instance,     \* a proof object offered to the metadata schema
    verdict       \* the schema's verdict on it

vars == <<heap, globals, initPc, derivations, lookup, op, bpc, builder, bsuite,
          credSubjects, claimProofs, signLog, bret, instance, verdict>>

registryVars == <<heap, globals, initPc, derivations>>
callVars == <<lookup, op>>
buildVars == <<bpc, builder, bsuite, credSubjects, claimProofs, signLog, bret>>
schemaVars == <<instance, verdict>>

----------------------------------------------------------------------------
(* Bounds *)

\* number of distinct errors an external signer / verifier can return
MaxErrs == 2
\* number of claim names, besides "id", a Builder's Data can hold
MaxClaims == 2
\* number of property names outside the schema a proof object can carry
MaxExtra == 1

ErrPool == <<"external: e1", "external: e2", "external: e3", "external: e4">>
ExternalErrs == {ErrPool[i] : i \in 1..MaxErrs}
NoErr == "nil"

----------------------------------------------------------------------------
(* Values *)

JCSEdSignatureType == "JCSEdSignatureType"
WorkEdSignatureType == "WorkEdSignatureType"
Ed25519SignatureType == "Ed25519SignatureType"
EcdsaSecp256k1SignatureType == "EcdsaSecp256k1SignatureType"
\* a SignatureType value no case of the switches names
OtherSignatureType == "OtherSignatureType"

SignatureTypes == {JCSEdSignatureType, WorkEdSignatureType, Ed25519SignatureType,
                   EcdsaSecp256k1SignatureType, OtherSignatureType}

V1 == "V1"
V2 == "V2"
\* a ModelVersion value that is neither V1 nor V2
OtherVersion == "V0"
ModelVersions == {V1, V2, OtherVersion}

NilField == "nil"
Nil == [kind |-> "nil"]

\* The zero value of LDSignatureSuite's strategy fields: a composite literal
\* leaves the fields it does not name nil.
ZeroSuite ==
    [SignatureType |-> NilField, KeyType |-> NilField, ProofFactory |-> NilField,
     Canonicalizer |-> NilField, Marshaler |-> NilField, OptionsAppender |-> NilField,
     MessageDigest |-> NilField]

StrategyFields == DOMAIN ZeroSuite

jcsLiteral ==
    [ZeroSuite EXCEPT !.SignatureType = JCSEdSignatureType,
                      !.KeyType = "Ed25519KeyType",
                      !.ProofFactory = "proofFactoryV2",
                      !.Canonicalizer = "JCSCanonicalizer",
                      !.Marshaler = "EmbeddedProofMarshaler"]

workLiteral ==
    [ZeroSuite EXCEPT !.SignatureType = WorkEdSignatureType,
                      !.KeyType = "Ed25519KeyType",
                      !.ProofFactory = "proofFactoryV1",
                      !.Marshaler = "WithoutProofMarshaler",
                      !.Canonicalizer = "JCSCanonicalizer",
                      !.OptionsAppender = "NonceAppender"]

ed25519Literal ==
    [ZeroSuite EXCEPT !.SignatureType = Ed25519SignatureType,
                      !.KeyType = "Ed25519KeyType",
                      !.ProofFactory = "proofFactoryV1",
                      !.Marshaler = "WithoutProofMarshaler",
                      !.Canonicalizer = "JCSCanonicalizer",
                      !.OptionsAppender = "NonceAppender"]

secp256K1Literal ==
    [ZeroSuite EXCEPT !.SignatureType = EcdsaSecp256k1SignatureType,
                      !.KeyType = "EcdsaSecp256k1KeyType",
                      !.ProofFactory = "proofFactoryV1",
                      !.Marshaler = "WithoutProofMarshaler",
                      !.Canonicalizer = "JCSCanonicalizer",
                      !.OptionsAppender = "NonceAppender"]

----------------------------------------------------------------------------
(* Suite construction.  A constructor takes the heap and returns the new    *)
(* heap, the value it returns and the derivation it performed.              *)

\* &LDSignatureSuite{...}: a fresh object
New(h, lit) ==
    [heap |-> Append(h, lit), ptr |-> Len(h) + 1]

\* *LDSignatureSuite as a SignatureSuite interface value
PtrSuite(p) == [kind |-> "ptr", ptr |-> p]
\* LDSignatureSuite (a copy) as a SignatureSuite interface value
ValSuite(v) == [kind |-> "val", val |-> v]

\* what a derivation did: the function, the field it overrides, the suite it
\* was given (address and fields at the call) and the suite it produced
Derivation(fn, field, p, before, result) ==
    [fn |-> fn, field |-> field, base |-> p, before |-> before, result |-> result]

withV2ProofsInPlace(h, p) ==
    [heap |-> [h EXCEPT ![p].ProofFactory = "proofFactoryV2"], ptr |-> p,
     did |-> Derivation("withV2Proofs", "ProofFactory", p, h[p], PtrSuite(p))]

withV2Proofs(h, p) ==
    LET updated == [h[p] EXCEPT !.ProofFactory = "proofFactoryV2"]
    IN  [heap |-> Append(h, updated), ptr |-> Len(h) + 1,
         did |-> Derivation("withV2Proofs", "ProofFactory", p, h[p], PtrSuite(Len(h) + 1))]

withB64Digest(h, p) ==
    LET updated == [h[p] EXCEPT !.MessageDigest = "Base64Encoder"]
    IN  [heap |-> Append(h, updated), ptr |-> Len(h) + 1,
         did |-> Derivation("withB64Digest", "MessageDigest", p, h[p], PtrSuite(Len(h) + 1))]

withAndWithoutCanonicalizerAliased(h, p) ==
    [heap |-> [h EXCEPT ![p].Canonicalizer = NilField],
     suite |-> [kind |-> "composite", Main |-> PtrSuite(p), Backup |-> PtrSuite(p)],
     did |-> Derivation("withAndWithoutCanonicalizer", "Canonicalizer", p, h[p], PtrSuite(p))]

withAndWithoutCanonicalizer(h, p) ==
    LET backup == [h[p] EXCEPT !.Canonicalizer = NilField]
    IN  [heap |-> h,
         suite |-> [kind |-> "composite", Main |-> PtrSuite(p), Backup |-> ValSuite(backup)],
         did |-> Derivation("withAndWithoutCanonicalizer", "Canonicalizer", p, h[p],
                            ValSuite(backup))]

----------------------------------------------------------------------------
(* Package initialisation: the var block, in declaration order (every       *)
(* initialiser depends only on variables declared before it).               *)

GlobalNames ==
    <<"jcsEd25519SignatureSuite", "workSignatureSuiteV1", "workSignatureSuiteV2",
      "workSignatureSuiteV1B64", "workSignatureSuiteV2B64", "ed25519SignatureSuiteV1",
      "ed25519SignatureSuiteV2", "ed25519SignatureSuiteV1B64", "ed25519SignatureSuiteV2B64",
      "secp256K1SignatureSuite">>

NumGlobals == Len(GlobalNames)

\* x.Main.(*LDSignatureSuite): the address held by a composite's Main
MainPtr(s) == s.Main.ptr

\* &LDSignatureSuite{...} as a package-level variable
initPlain(h, lit) ==
    LET a == New(h, lit)
    IN  [heap |-> a.heap, suite |-> PtrSuite(a.ptr), dids |-> {}]

\* withAndWithoutCanonicalizer(&LDSignatureSuite{...})
initBase(h, lit) ==
    LET a == New(h, lit)
        c == withAndWithoutCanonicalizer(a.heap, a.ptr)
    IN  [heap |-> c.heap, suite |-> c.suite, dids |-> {c.did}]

\* withAndWithoutCanonicalizer(withV2Proofs(base.Main.(*LDSignatureSuite)))
initV2(h, base) ==
    LET v == withV2Proofs(h, MainPtr(base))
        c == withAndWithoutCanonicalizer(v.heap, v.ptr)
    IN  [heap |-> c.heap, suite |-> c.suite, dids |-> {v.did, c.did}]

\* withAndWithoutCanonicalizer(withB64Digest(base.Main.(*LDSignatureSuite)))
initV1B64(h, base) ==
    LET b == withB64Digest(h, MainPtr(base))
        c == withAndWithoutCanonicalizer(b.heap, b.ptr)
    IN  [heap |-> c.heap, suite |-> c.suite, dids |-> {b.did, c.did}]

\* withAndWithoutCanonicalizer(withV2Proofs(withB64Digest(base.Main.(*LDSignatureSuite))))
initV2B64(h, base) ==
    LET b == withB64Digest(h, MainPtr(base))
        v == withV2Proofs(b.heap, b.ptr)
        c == withAndWithoutCanonicalizer(v.heap, v.ptr)
    IN  [heap |-> c.heap, suite |-> c.suite, dids |-> {b.did, v.did, c.did}]

\* the initialiser of the package-level variable called name
InitValue(name, h, g) ==
    CASE name = "jcsEd25519SignatureSuite" -> initPlain(h, jcsLiteral)
      [] name = "workSignatureSuiteV1" -> initBase(h, workLiteral)
      [] name = "workSignatureSuiteV2" -> initV2(h, g["workSignatureSuiteV1"])
      [] name = "workSignatureSuiteV1B64" -> initV1B64(h, g["workSignatureSuiteV1"])
      [] name = "workSignatureSuiteV2B64" -> initV2B64(h, g["workSignatureSuiteV1"])
      [] name = "ed25519SignatureSuiteV1" -> initBase(h, ed25519Literal)
      [] name = "ed25519SignatureSuiteV2" -> initV2(h, g["ed25519SignatureSuiteV1"])
      [] name = "ed25519SignatureSuiteV1B64" -> initV1B64(h, g["ed25519SignatureSuiteV1"])
      [] name = "ed25519SignatureSuiteV2B64" -> initV2B64(h, g["ed25519SignatureSuiteV1"])
      [] name = "secp256K1SignatureSuite" -> initPlain(h, secp256K1Literal)

\* the registry state after the first n package-level variables are initialised
RECURSIVE Initialised(_)
Initialised(n) ==
    IF n = 0
    THEN [heap |-> <<>>, globals |-> [x \in {GlobalNames[i] : i \in 1..NumGlobals} |-> Nil],
          dids |-> {}]
    ELSE LET prev == Initialised(n - 1)
             r == InitValue(GlobalNames[n], prev.heap, prev.globals)
         IN  [heap |-> r.heap,
              globals |-> [prev.globals EXCEPT ![GlobalNames[n]] = r.suite],
              dids |-> prev.dids \cup r.dids]

\* one package-level variable is initialised
PackageInit ==
    /\ initPc < NumGlobals
    /\ LET r == InitValue(GlobalNames[initPc + 1], heap, globals)
       IN  /\ heap' = r.heap
           /\ globals' = [globals EXCEPT ![GlobalNames[initPc + 1]] = r.suite]
           /\ derivations' = derivations \cup r.dids
    /\ initPc' = initPc + 1
    /\ UNCHANGED <<callVars, buildVars, schemaVars>>

\* the package is initialised: its functions can be called
Ready == initPc = NumGlobals

----------------------------------------------------------------------------
(* The suite interface *)

\* the LDSignatureSuite behind a non-composite interface value
Deref(h, s) == IF s.kind = "ptr" THEN h[s.ptr] ELSE s.val

\* LDSignatureSuite.Type
ldType(h, s) == Deref(h, s).SignatureType

\* compositeSignatureSuite.Type
compositeType(h, s) == ldType(h, s.Main)

\* SignatureSuite.Type, dispatched on the dynamic type
Type(h, s) == IF s.kind = "composite" THEN compositeType(h, s) ELSE ldType(h, s)

----------------------------------------------------------------------------
(* The registry *)

\* SignatureSuites()
SignatureSuites(g) ==
    [JCSEd25519 |-> g["jcsEd25519SignatureSuite"],
     WorkEd25519 |-> g["workSignatureSuiteV1"],
     WorkEd25519v2 |-> g["workSignatureSuiteV2"],
     Ed25519 |-> g["ed25519SignatureSuiteV1"],
     Ed25519v2 |-> g["ed25519SignatureSuiteV2"],
     Secp256k1 |-> g["secp256K1SignatureSuite"]]

getSuiteV1Fallback(f, signatureType) ==
    CASE signatureType = EcdsaSecp256k1SignatureType -> f.Secp256k1
      [] signatureType = WorkEdSignatureType -> f.WorkEd25519
      [] signatureType = Ed25519SignatureType -> f.Ed25519
      [] OTHER -> f.Ed25519

getSuiteV1(f, signatureType) ==
    CASE signatureType = EcdsaSecp256k1SignatureType -> f.Secp256k1
      [] signatureType = WorkEdSignatureType -> f.WorkEd25519
      [] signatureType = Ed25519SignatureType -> f.Ed25519
      [] OTHER -> Nil

getSuiteV2(f, signatureType) ==
    CASE signatureType = JCSEdSignatureType -> f.JCSEd25519
      [] signatureType = WorkEdSignatureType -> f.WorkEd25519v2
      [] signatureType = Ed25519SignatureType -> f.Ed25519v2
      [] OTHER -> Nil

Unsupported == "unsupported signature type"

\* GetSuite: the named results (suite, err)
GetSuite(f, signatureType, modelVersion) ==
    LET suite == CASE modelVersion = V1 -> getSuiteV1(f, signatureType)
                   [] modelVersion = V2 -> getSuiteV2(f, signatureType)
                   [] OTHER -> Nil
    IN  [suite |-> suite, err |-> IF suite = Nil THEN Unsupported ELSE NoErr]

\* a *Proof, as far as the registry reads it: its Type field and what its
\* ModelVersion() method returns
Proofs == [Type : SignatureTypes, ModelVersion : ModelVersions]

\* GetSuiteForProof
GetSuiteForProof(f, proof) == GetSuite(f, proof.Type, proof.ModelVersion)

getSuiteV1Cred(g, signatureType) ==
    CASE signatureType = Ed25519SignatureType -> g["ed25519SignatureSuiteV1B64"]
      [] signatureType = WorkEdSignatureType -> g["workSignatureSuiteV1B64"]
      [] OTHER -> Nil

getSuiteV2Cred(g, signatureType) ==
    CASE signatureType = Ed25519SignatureType -> g["ed25519SignatureSuiteV2B64"]
      [] signatureType = WorkEdSignatureType -> g["workSignatureSuiteV2B64"]
      [] signatureType = JCSEdSignatureType -> g["jcsEd25519SignatureSuite"]
      [] OTHER -> Nil

\* GetSuiteForCredentialProof: the named results (suite, err)
GetSuiteForCredentialProof(g, proof) ==
    LET suite == CASE proof.ModelVersion = V1 -> getSuiteV1Cred(g, proof.Type)
                   [] proof.ModelVersion = V2 -> getSuiteV2Cred(g, proof.Type)
                   [] OTHER -> Nil
    IN  [suite |-> suite, err |-> IF suite = Nil THEN Unsupported ELSE NoErr]

----------------------------------------------------------------------------
(* Sign and Verify on a suite.  What an LDSignatureSuite's Sign or Verify   *)
(* returns rests on the external signer / verifier: oracle[d] is what        *)
(* delegate d returns if it is invoked on this document.                     *)

Outcomes == ExternalErrs \cup {NoErr}
Provables == {"doc1", "doc2"}
Keys == {"key1", "key2"}

Call(target, method, provable, key) ==
    [target |-> target, method |-> method, provable |-> provable, key |-> key]

compositeSignBoth(provable, signer, oracle) ==
    [ret |-> oracle["Main"],
     calls |-> <<Call("Main", "Sign", provable, signer),
                 Call("Backup", "Sign", provable, signer)>>]

\* compositeSignatureSuite.Sign
compositeSign(provable, signer, oracle) ==
    [ret |-> oracle["Main"], calls |-> <<Call("Main", "Sign", provable, signer)>>]

compositeVerifyMainErr(provable, verifier, oracle) ==
    IF oracle["Main"] # NoErr
    THEN [ret |-> IF oracle["Backup"] # NoErr THEN oracle["Main"] ELSE NoErr,
          calls |-> <<Call("Main", "Verify", provable, verifier),
                      Call("Backup", "Verify", provable, verifier)>>]
    ELSE [ret |-> NoErr, calls |-> <<Call("Main", "Verify", provable, verifier)>>]

\* compositeSignatureSuite.Verify
compositeVerify(provable, verifier, oracle) ==
    IF oracle["Main"] # NoErr
    THEN [ret |-> oracle["Backup"],
          calls |-> <<Call("Main", "Verify", provable, verifier),
                      Call("Backup", "Verify", provable, verifier)>>]
    ELSE [ret |-> NoErr, calls |-> <<Call("Main", "Verify", provable, verifier)>>]

\* the delegates a suite's Sign / Verify can reach
Delegates(s) == IF s.kind = "composite" THEN {"Main", "Backup"} ELSE {"Self"}

\* SignatureSuite.Sign, dispatched on the dynamic type
suiteSign(s, provable, signer, oracle) ==
    IF s.kind = "composite"
    THEN compositeSign(provable, signer, oracle)
    ELSE [ret |-> oracle["Self"], calls |-> <<Call("Self", "Sign", provable, signer)>>]

\* SignatureSuite.Verify, dispatched on the dynamic type
suiteVerify(s, provable, verifier, oracle) ==
    IF s.kind = "composite"
    THEN compositeVerify(provable, verifier, oracle)
    ELSE [ret |-> oracle["Self"], calls |-> <<Call("Self", "Verify", provable, verifier)>>]

NoLookup == [fn |-> "none"]
NoOp == [method |-> "none"]

Looked(fn, t, v, r) ==
    [fn |-> fn, Type |-> t, ModelVersion |-> v, suite |-> r.suite, err |-> r.err]

\* a caller asks the factory for a suite by type and version
CallGetSuite ==
    /\ Ready
    /\ \E t \in SignatureTypes, v \in ModelVersions :
          lookup' = Looked("GetSuite", t, v, GetSuite(SignatureSuites(globals), t, v))
    /\ op' = NoOp
    /\ UNCHANGED <<registryVars, buildVars, schemaVars>>

\* a caller asks the factory for the suite of a proof
CallGetSuiteForProof ==
    /\ Ready
    /\ \E proof \in Proofs :
          lookup' = Looked("GetSuiteForProof", proof.Type, proof.ModelVersion,
                           GetSuiteForProof(SignatureSuites(globals), proof))
    /\ op' = NoOp
    /\ UNCHANGED <<registryVars, buildVars, schemaVars>>

\* a caller asks the factory for the suite of a credential proof
CallGetSuiteForCredentialProof ==
    /\ Ready
    /\ \E proof \in Proofs :
          lookup' = Looked("GetSuiteForCredentialProof", proof.Type, proof.ModelVersion,
                           GetSuiteForCredentialProof(globals, proof))
    /\ op' = NoOp
    /\ UNCHANGED <<registryVars, buildVars, schemaVars>>

Performed(method, s, provable, key, oracle, r) ==
    [method |-> method, suite |-> s, provable |-> provable, key |-> key,
     oracle |-> oracle, calls |-> r.calls, ret |-> r.ret]

\* the caller signs a document with the suite it looked up
CallSign ==
    /\ lookup.fn # "none"
    /\ lookup.err = NoErr
    /\ \E provable \in Provables, signer \in Keys,
          oracle \in [Delegates(lookup.suite) -> Outcomes] :
          op' = Performed("Sign", lookup.suite, provable, signer, oracle,
                          suiteSign(lookup.suite, provable, signer, oracle))
    /\ UNCHANGED <<registryVars, lookup, buildVars, schemaVars>>

\* the caller verifies a document with the suite it looked up
CallVerify ==
    /\ lookup.fn # "none"
    /\ lookup.err = NoErr
    /\ \E provable \in Provables, verifier \in Keys,
          oracle \in [Delegates(lookup.suite) -> Outcomes] :
          op' = Performed("Verify", lookup.suite, provable, verifier, oracle,
                          suiteVerify(lookup.suite, provable, verifier, oracle))
    /\ UNCHANGED <<registryVars, lookup, buildVars, schemaVars>>

----------------------------------------------------------------------------
(* Builder.Build *)

SubjectIDAttribute == "id"
ClaimPool == <<"age", "country", "name", "email">>
ClaimNames == {ClaimPool[i] : i \in 1..MaxClaims}
ClaimValues == {"did:work:alice", "did:work:bob"}

EmptyMap == [k \in {} |-> NilField]

\* a map[string]interface{} over the claim names
Maps == UNION {[ks -> ClaimValues] : ks \in SUBSET (ClaimNames \cup {SubjectIDAttribute})}

\* the Builder values Build is called on; a missing field holds its zero value
Builders ==
    [SubjectDID : {"", "did:work:alice"},
     Data : Maps,
     Metadata : {NilField, "metadata"},
     Signer : {NilField, "signer"},
     SignatureType : SignatureTypes \cup {""}]

NoBuilder ==
    [SubjectDID |-> "", Data |-> EmptyMap, Metadata |-> NilField, Signer |-> NilField,
     SignatureType |-> ""]

\* validator.New().Struct(b): every field tagged validate:"required" is non-zero
validateStruct(b) ==
    IF /\ b.SubjectDID # ""
       /\ b.Metadata # NilField
       /\ b.Signer # NilField
       /\ b.SignatureType # ""
    THEN NoErr
    ELSE "validation: required field missing"

\* GetSuiteForCredentials(signatureType, modelVersion): the credential-proof
\* table, looked up by type and version
GetSuiteForCredentials(g, signatureType, modelVersion) ==
    LET suite == CASE modelVersion = V1 -> getSuiteV1Cred(g, signatureType)
                   [] modelVersion = V2 -> getSuiteV2Cred(g, signatureType)
                   [] OTHER -> Nil
    IN  [suite |-> suite, err |-> IF suite = Nil THEN Unsupported ELSE NoErr]

AssertionMethodPurpose == "assertionMethod"

\* &VerifiableCredential{UnsignedVerifiableCredential{Metadata, CredentialSubject, ClaimProofs}}
Credential(metadata, subject, proofs) ==
    [kind |-> "credential", Metadata |-> metadata, CredentialSubject |-> subject,
     ClaimProofs |-> proofs, Proof |-> Nil]

\* the proof a successful Sign attaches: it covers the document's unsigned part
ProofOver(h, suite, doc, signer, options) ==
    [kind |-> "proof", Type |-> Type(h, suite), over |-> doc, signer |-> signer,
     ProofPurpose |-> options.ProofPurpose]

\* suite.Sign(doc, signer, options): the error, and the document as Sign leaves it
signDocument(h, suite, doc, signer, options, oracle) ==
    LET r == suiteSign(suite, doc, signer, oracle)
    IN  [err |-> r.ret,
         doc |-> IF r.ret = NoErr
                 THEN [doc EXCEPT !.Proof = ProofOver(h, suite, doc, signer, options)]
                 ELSE doc]

credSubjectsDataFirst(b) ==
    [k \in DOMAIN b.Data \cup {SubjectIDAttribute} |->
        IF k = SubjectIDAttribute THEN b.SubjectDID ELSE b.Data[k]]

\* lines 37-40: the id entry, then every entry of Data over it
credSubjectsOf(b) ==
    [k \in DOMAIN b.Data \cup {SubjectIDAttribute} |->
        IF k \in DOMAIN b.Data THEN b.Data[k] ELSE b.SubjectDID]

minimalCredentialAll(b, subjects, k) ==
    Credential(b.Metadata, subjects, EmptyMap)

\* lines 46-51: the credential holding claim k alone
minimalCredential(b, subjects, k) ==
    Credential(b.Metadata, [x \in {k} |-> subjects[k]], EmptyMap)

\* lines 58-64: the credential holding every claim and every claim proof
fullCredential(b, subjects, proofs) ==
    Credential(b.Metadata, subjects, proofs)

Returned(cred, err) == [cred |-> cred, err |-> err]
NotReturned == [cred |-> Nil, err |-> "pending"]

\* line 65: return cred, suite.Sign(cred, b.Signer, options)
buildReturn(signed) ==
    Returned(signed.doc, signed.err)

Options == [ProofPurpose |-> AssertionMethodPurpose]

\* Build is called: validation, suite lookup, credSubjects (lines 27-44)
BuildCall ==
    /\ bpc = "idle"
    /\ \E b \in Builders :
          LET verr == validateStruct(b)
              got == GetSuiteForCredentials(globals, b.SignatureType, V2)
          IN  /\ builder' = b
              /\ signLog' = <<>>
              /\ claimProofs' = EmptyMap
              /\ IF verr # NoErr
                 THEN /\ bret' = Returned(Nil, verr)
                      /\ bpc' = "done"
                      /\ bsuite' = Nil
                      /\ credSubjects' = EmptyMap
                 ELSE IF got.err # NoErr
                 THEN /\ bret' = Returned(Nil, got.err)
                      /\ bpc' = "done"
                      /\ bsuite' = Nil
                      /\ credSubjects' = EmptyMap
                 ELSE /\ bret' = NotReturned
                      /\ bpc' = "claims"
                      /\ bsuite' = got.suite
                      /\ credSubjects' = credSubjectsOf(b)
    /\ UNCHANGED <<registryVars, callVars, schemaVars>>

\* one iteration of the range over credSubjects (lines 45-56); the order of a
\* range over a map is not fixed
BuildSignClaim ==
    /\ bpc = "claims"
    /\ \E k \in DOMAIN credSubjects \ DOMAIN claimProofs,
          oracle \in [Delegates(bsuite) -> Outcomes] :
          LET credential == minimalCredential(builder, credSubjects, k)
              signed == signDocument(heap, bsuite, credential, builder.Signer, Options, oracle)
          IN  /\ signLog' = Append(signLog, [doc |-> credential, err |-> signed.err])
              /\ IF signed.err # NoErr
                 THEN /\ bret' = Returned(Nil, signed.err)
                      /\ bpc' = "done"
                      /\ UNCHANGED claimProofs
                 ELSE /\ claimProofs' =
                            [x \in DOMAIN claimProofs \cup {k} |->
                                IF x = k THEN signed.doc.Proof ELSE claimProofs[x]]
                      /\ UNCHANGED <<bret, bpc>>
    /\ UNCHANGED <<builder, bsuite, credSubjects, registryVars, callVars, schemaVars>>

\* the range is over: the full credential is signed and returned (lines 58-65)
BuildSignAll ==
    /\ bpc = "claims"
    /\ DOMAIN claimProofs = DOMAIN credSubjects
    /\ \E oracle \in [Delegates(bsuite) -> Outcomes] :
          LET cred == fullCredential(builder, credSubjects, claimProofs)
              signed == signDocument(heap, bsuite, cred, builder.Signer, Options, oracle)
          IN  /\ signLog' = Append(signLog, [doc |-> cred, err |-> signed.err])
              /\ bret' = buildReturn(signed)
              /\ bpc' = "done"
    /\ UNCHANGED <<builder, bsuite, credSubjects, claimProofs, registryVars, callVars,
                   schemaVars>>

----------------------------------------------------------------------------
(* The proof object of the ledger metadata schema *)

\* "properties" of proof
PropertyNames == {"created", "creator", "verificationMethod", "nonce", "signatureValue", "type"}
ExtraPool == <<"proofPurpose", "jws", "domain">>
ExtraNames == {ExtraPool[i] : i \in 1..MaxExtra}

\* the kinds of JSON value a property can hold: a string that is an RFC 3339
\* date-time, any other string, a value that is no string
ValueKinds == {"date-time", "string", "number"}

\* the proof objects offered to the schema
Instances == UNION {[ns -> ValueKinds] : ns \in SUBSET (PropertyNames \cup ExtraNames)}

\* "type": "string"
isString(kind) == kind \in {"date-time", "string"}

\* the subschema of property n
propertyValid(n, kind) ==
    /\ isString(kind)
    /\ n = "created" => kind = "date-time"

\* the two "required" lists of "oneOf"
RequiredV2 == {"created", "verificationMethod", "nonce", "signatureValue", "type"}
RequiredV1 == {"created", "creator", "nonce", "signatureValue", "type"}

oneOfAny(inst) ==
    \/ RequiredV2 \subseteq DOMAIN inst
    \/ RequiredV1 \subseteq DOMAIN inst

\* "oneOf": exactly one of the subschemas accepts
oneOf(inst) ==
    Cardinality({req \in {RequiredV2, RequiredV1} : req \subseteq DOMAIN inst}) = 1

\* "additionalProperties": false
additionalProperties(inst) == DOMAIN inst \subseteq PropertyNames

\* the proof subschema as a whole
validateProof(inst) ==
    /\ \A n \in DOMAIN inst \cap PropertyNames : propertyValid(n, inst[n])
    /\ oneOf(inst)
    /\ additionalProperties(inst)

\* the schema is applied to the instance
ValidateProof ==
    /\ verdict = "none"
    /\ verdict' = IF validateProof(instance) THEN "accepted" ELSE "rejected"
    /\ UNCHANGED <<instance, registryVars, callVars, buildVars>>

----------------------------------------------------------------------------
(* Specifications *)

RegistryStart ==
    /\ heap = Initialised(0).heap
    /\ globals = Initialised(0).globals
    /\ derivations = Initialised(0).dids
    /\ initPc = 0

RegistryReady ==
    /\ heap = Initialised(NumGlobals).heap
    /\ globals = Initialised(NumGlobals).globals
    /\ derivations = Initialised(NumGlobals).dids
    /\ initPc = NumGlobals

CallsIdle == lookup = NoLookup /\ op = NoOp

BuildIdle ==
    /\ bpc = "idle"
    /\ builder = NoBuilder
    /\ bsuite = Nil
    /\ credSubjects = EmptyMap
    /\ claimProofs = EmptyMap
    /\ signLog = <<>>
    /\ bret = NotReturned

SchemaIdle == instance = EmptyMap /\ verdict = "none"

\* the package from its initialisation on, and the registry and suites in use
Init == RegistryStart /\ CallsIdle /\ BuildIdle /\ SchemaIdle

Next ==
    \/ PackageInit
    \/ CallGetSuite
    \/ CallGetSuiteForProof
    \/ CallGetSuiteForCredentialProof
    \/ CallSign
    \/ CallVerify

Spec == Init /\ [][Next]_vars

\* the credential builder, in an initialised program
InitBuild == RegistryReady /\ CallsIdle /\ BuildIdle /\ SchemaIdle

NextBuild == BuildCall \/ BuildSignClaim \/ BuildSignAll

SpecBuild == InitBuild /\ [][NextBuild]_vars

\* the metadata schema applied to a proof object
InitSchema ==
    /\ RegistryReady /\ CallsIdle /\ BuildIdle
    /\ instance \in Instances
    /\ verdict = "none"

NextSchema == ValidateProof

SpecSchema == InitSchema /\ [][NextSchema]_vars

----------------------------------------------------------------------------
(* Properties *)

SupportedPairs ==
    {<<JCSEdSignatureType, V2>>, <<WorkEdSignatureType, V1>>, <<WorkEdSignatureType, V2>>,
     <<Ed25519SignatureType, V1>>, <<Ed25519SignatureType, V2>>,
     <<EcdsaSecp256k1SignatureType, V1>>}

\* C1: GetSuite on the factory of SignatureSuites() returns, for each of the six
\* supported (type, version) pairs, a non-nil suite of the requested type and a
\* nil error, and for every other pair no suite and the "unsupported signature
\* type" error.
C1_GetSuiteTotal ==
    lookup.fn = "GetSuite" =>
        IF <<lookup.Type, lookup.ModelVersion>> \in SupportedPairs
        THEN /\ lookup.suite # Nil
             /\ lookup.err = NoErr
             /\ Type(heap, lookup.suite) = lookup.Type
        ELSE /\ lookup.suite = Nil
             /\ lookup.err = Unsupported

C1_Witness ==
    /\ lookup.fn = "GetSuite"
    /\ lookup.Type = EcdsaSecp256k1SignatureType
    /\ lookup.ModelVersion = V1
    /\ lookup.err = NoErr
    /\ Type(heap, lookup.suite) = EcdsaSecp256k1SignatureType

\* C2: Verify on a composite suite calls Main.Verify first, calls Backup.Verify
\* only after Main.Verify failed, succeeds iff Main or Backup succeeds, and
\* returns Backup's error when both fail.
C2_VerifyFallback ==
    (op.method = "Verify" /\ op.suite.kind = "composite") =>
        /\ Len(op.calls) >= 1
        /\ op.calls[1] = Call("Main", "Verify", op.provable, op.key)
        /\ \A i \in 2..Len(op.calls) :
              /\ i = 2
              /\ op.calls[i] = Call("Backup", "Verify", op.provable, op.key)
              /\ op.oracle["Main"] # NoErr
        /\ op.oracle["Main"] # NoErr => Len(op.calls) = 2
        /\ (op.ret = NoErr) <=> (op.oracle["Main"] = NoErr \/ op.oracle["Backup"] = NoErr)
        /\ (op.oracle["Main"] # NoErr /\ op.oracle["Backup"] # NoErr) =>
              op.ret = op.oracle["Backup"]

C2_Witness ==
    /\ op.method = "Verify"
    /\ op.suite.kind = "composite"
    /\ op.oracle["Main"] # NoErr
    /\ op.oracle["Backup"] # NoErr
    /\ op.oracle["Main"] # op.oracle["Backup"]
    /\ op.ret = op.oracle["Backup"]
    /\ Len(op.calls) = 2

\* the LDSignatureSuite values a suite is made of
Parts(h, s) ==
    IF s.kind = "composite" THEN {Deref(h, s.Main), Deref(h, s.Backup)} ELSE {Deref(h, s)}

\* C6: every suite GetSuiteForCredentialProof returns uses the base64 message
\* digest, in Main and in Backup when it is composite.
C6_CredentialSuitesUseB64 ==
    (lookup.fn = "GetSuiteForCredentialProof" /\ lookup.suite # Nil) =>
        \A part \in Parts(heap, lookup.suite) : part.MessageDigest = "Base64Encoder"

\* C8: every composite suite of the registry has a Main and a Backup of the
\* same signature type, which is the composite's Type(); Main has a
\* canonicalizer, Backup has none, and they agree on every other field.
C8_CompositeAgree ==
    \A name \in DOMAIN globals :
        globals[name].kind = "composite" =>
            LET main == Deref(heap, globals[name].Main)
                backup == Deref(heap, globals[name].Backup)
            IN  /\ ldType(heap, globals[name].Main) = ldType(heap, globals[name].Backup)
                /\ Type(heap, globals[name]) = ldType(heap, globals[name].Main)
                /\ main.Canonicalizer # NilField
                /\ backup.Canonicalizer = NilField
                /\ \A f \in StrategyFields \ {"Canonicalizer"} : main[f] = backup[f]

C8_Witness ==
    /\ Ready
    /\ Cardinality({name \in DOMAIN globals : globals[name].kind = "composite"}) = 8
    /\ Deref(heap, globals["workSignatureSuiteV2B64"].Main).Canonicalizer = "JCSCanonicalizer"
    /\ Deref(heap, globals["workSignatureSuiteV2B64"].Backup).MessageDigest = "Base64Encoder"

\* C9: Sign on a composite suite calls Main.Sign once, with the document and
\* signer it was given, calls nothing else, and returns what Main.Sign returned.
C9_SignMainOnly ==
    (op.method = "Sign" /\ op.suite.kind = "composite") =>
        /\ op.calls = <<Call("Main", "Sign", op.provable, op.key)>>
        /\ op.ret = op.oracle["Main"]

C9_Witness ==
    /\ op.method = "Sign"
    /\ op.suite.kind = "composite"
    /\ op.oracle["Main"] # NoErr
    /\ op.oracle["Backup"] = NoErr
    /\ op.ret = op.oracle["Main"]

\* the value a derivation writes into the field it overrides
Override(fn) ==
    CASE fn = "withV2Proofs" -> "proofFactoryV2"
      [] fn = "withB64Digest" -> "Base64Encoder"
      [] fn = "withAndWithoutCanonicalizer" -> NilField

\* C10: deriving a variant changes no field of the suite it is derived from:
\* the base V1 suites keep the fields of their literals (V1 proof factory, no
\* message digest, a canonicalizer), the suite a derivation was given still
\* has the fields it had at the call, and the suite a derivation produced
\* differs from them in the overridden field only.
C10_DerivationFrame ==
    /\ globals["workSignatureSuiteV1"] # Nil =>
          heap[MainPtr(globals["workSignatureSuiteV1"])] = workLiteral
    /\ globals["ed25519SignatureSuiteV1"] # Nil =>
          heap[MainPtr(globals["ed25519SignatureSuiteV1"])] = ed25519Literal
    /\ \A d \in derivations :
          /\ heap[d.base] = d.before
          /\ Deref(heap, d.result)[d.field] = Override(d.fn)
          /\ \A f \in StrategyFields \ {d.field} : Deref(heap, d.result)[f] = d.before[f]

C10_Witness ==
    /\ Ready
    /\ Cardinality(derivations) = 16
    /\ heap[MainPtr(globals["workSignatureSuiteV2B64"])].ProofFactory = "proofFactoryV2"
    /\ heap[MainPtr(globals["workSignatureSuiteV1"])].ProofFactory = "proofFactoryV1"

Succeeded == bpc = "done" /\ bret.err = NoErr

\* the credential carries a proof of its own and one for each of its claims
FullySigned(cred) ==
    /\ cred.Proof # Nil
    /\ DOMAIN cred.ClaimProofs = DOMAIN cred.CredentialSubject
    /\ \A k \in DOMAIN cred.ClaimProofs : cred.ClaimProofs[k] # Nil

\* C3: whatever the outcome of Build, the credential it returns is nil or
\* carries a claim proof for every claim and an aggregate proof, and it is nil
\* whenever the error is not.
C3_NoPartialCredential ==
    bpc = "done" =>
        /\ bret.cred = Nil \/ FullySigned(bret.cred)
        /\ bret.err # NoErr => bret.cred = Nil

IdClaim(b) ==
    IF SubjectIDAttribute \in DOMAIN b.Data THEN b.Data[SubjectIDAttribute] ELSE b.SubjectDID

C5_ClaimProofs ==
    Succeeded =>
        LET cred == bret.cred
            names == DOMAIN builder.Data \cup {SubjectIDAttribute}
            n == Cardinality(names)
        IN  /\ DOMAIN cred.ClaimProofs = names
            /\ DOMAIN cred.CredentialSubject = names
            /\ \A k \in names :
                  /\ cred.ClaimProofs[k].kind = "proof"
                  /\ cred.ClaimProofs[k].over.CredentialSubject =
                        [x \in {k} |-> cred.CredentialSubject[k]]
                  /\ cred.ClaimProofs[k].over.Metadata = builder.Metadata
                  /\ cred.ClaimProofs[k].over.ClaimProofs = EmptyMap
                  /\ cred.ClaimProofs[k].over.Proof = Nil
            /\ Len(signLog) = n + 1
            /\ \A i \in 1..n :
                  /\ Cardinality(DOMAIN signLog[i].doc.CredentialSubject) = 1
                  /\ signLog[i].doc.ClaimProofs = EmptyMap
            /\ \A k \in names :
                  Cardinality({i \in 1..n : DOMAIN signLog[i].doc.CredentialSubject = {k}}) = 1
            /\ signLog[n + 1].doc.CredentialSubject = cred.CredentialSubject
            /\ signLog[n + 1].doc.ClaimProofs = cred.ClaimProofs
            /\ signLog[n + 1].doc.Metadata = builder.Metadata
            /\ cred.Proof.over = signLog[n + 1].doc

C5_Witness ==
    /\ Succeeded
    /\ Cardinality(DOMAIN builder.Data \ {SubjectIDAttribute}) = MaxClaims
    /\ Cardinality(DOMAIN bret.cred.ClaimProofs) = MaxClaims + 1
    /\ Len(signLog) = MaxClaims + 2

\* every property of the instance holds a value its subschema accepts
WellTyped(inst) ==
    \A n \in DOMAIN inst : IF n = "created" THEN inst[n] = "date-time" ELSE isString(inst[n])

ProofShapes ==
    {{"type", "created", "nonce", "signatureValue", "creator"},
     {"type", "created", "nonce", "signatureValue", "verificationMethod"}}

\* C7: the schema accepts a proof object only if its fields are exactly type,
\* created, nonce, signatureValue and one of creator and verificationMethod,
\* and accepts every such object whose values are strings (created a date-time).
C7_ProofShape ==
    verdict # "none" =>
        /\ verdict = "accepted" => DOMAIN instance \in ProofShapes
        /\ (DOMAIN instance \in ProofShapes /\ WellTyped(instance)) => verdict = "accepted"

C7_Witness ==
    /\ verdict = "rejected"
    /\ DOMAIN instance = PropertyNames
    /\ WellTyped(instance)

====
